---- MODULE Spec2Model ----
(***************************************************************************)
(* Model of scripts/iterm2_bridge.py: the command loop (read_stdin,        *)
(* process_command), the poll task (stream_session) and the colour         *)
(* resolution (resolve_cell_color).                                        *)
(*                                                                         *)
(* Scheduling is asyncio's: one thread, a coroutine runs until its next    *)
(* await.  Every action below is the code between two awaits of one        *)
(* coroutine.  pc is the await the command loop is suspended at, and       *)
(* tasks[t].pc the await poll task t is suspended at.                      *)
(*                                                                         *)
(* Time: only the code's own timers consume time (the 2.0 s bound of       *)
(* wait_for and the 0.05 s sleep), in milliseconds; the collaborator's     *)
(* RPCs answer without time passing, and a timer expires only when no      *)
(* coroutine is ready to run.  lat is an upper bound of the time the       *)
(* current command has spent in process_command: a timer that expires      *)
(* while it runs is counted in full.                                       *)
(***************************************************************************)
EXTENDS Integers, Sequences, FiniteSets, TLC

\* ---------------------------------------------------------------- bounds
\* Lines read from stdin in one run.
MaxLines == 2
\* Content events emitted by poll tasks in one run.
MaxUpdates == 1
\* Standard colour indices are drawn from -IdxSlack .. 255 + IdxSlack.
IdxSlack == 2
\* Timeouts of the bounded wait that are counted for one poll task.
MaxTimeouts == 2

\* ------------------------------------------------------------- constants
\* timeout=2.0 of asyncio.wait_for, in ms.
PollTimeoutMs == 2000
\* asyncio.sleep(0.05), in ms.
SettleMs == 50
\* streaming_task = None, stop_event = None.
None == 0

\* Sessions the terminal host knows, and ids it does not know.
Existing == {"A", "B"}
Missing == {"X"}
SessionIds == Existing \cup Missing

\* The lines of stdin, by what json.loads and cmd.get make of them.
\*   garbage:   json.loads raises JSONDecodeError
\*   nonobject: valid JSON that is no object (5, [], "x", null)
\*   object:    a JSON object; cmd is its "cmd" (or "other"), sid its
\*              "sessionId" ("" when absent or falsy)
Line(kind, cmd, sid) == [kind |-> kind, cmd |-> cmd, sid |-> sid]
NoLine == Line("none", "", "")
EofLine == Line("eof", "", "")

VARIABLES
    pc,             \* where the command loop is suspended
    cur,            \* the line being processed (the last one read)
    nread,          \* lines read so far
    streaming_task, \* global streaming_task: None or a task id
    stop_event,     \* global stop_event: None or an Event (named by the task that made it)
    evset,          \* the Events that are set
    tasks,          \* the poll tasks created so far, by id
    out,            \* stdout: the events emitted, oldest first
    lat,            \* ms the current command has been in process_command (upper bound)
    nupd,           \* content events emitted by poll tasks
    mark,           \* history: Len(out) when the current line was read
    pre,            \* history: the activation when the current line was read
    c_color, c_pal, c_hex, c_done,  \* resolve_cell_color: input and result
    r_contents, r_lines, r_done,    \* process_screen_contents: input and result
    p_profile, p_colors, p_done     \* get_profile_colors: input and result

ctl_vars == <<pc, cur, nread, streaming_task, stop_event, evset, tasks, out,
              lat, nupd, mark, pre>>
hex_vars == <<c_color, c_pal, c_hex, c_done>>
run_vars == <<r_contents, r_lines, r_done>>
pal_vars == <<p_profile, p_colors, p_done>>
col_vars == <<hex_vars, run_vars, pal_vars>>
vars == <<ctl_vars, col_vars>>

\* ---------------------------------------------------------------- events
\* emit(): one JSON line on stdout.  src is the coroutine that wrote it
\* (0: process_command, t: poll task t); it is not on the wire.
Ev(type, sid, msg, src) == [type |-> type, sid |-> sid, msg |-> msg, src |-> src]
emit(o, e) == Append(o, e)
emit_error(o, msg, src) == emit(o, Ev("error", "", msg, src))

\* ------------------------------------------------------------ poll tasks
\* tmo counts the asyncio.TimeoutError of a task that has not finished, up to
\* MaxTimeouts
Task(sid, born) ==
    [sid |-> sid, pc |-> "getapp", cancel |-> FALSE, born |-> born, tmo |-> 0]
TaskIds == 1..Len(tasks)
\* task.done()
TaskDone(t) == tasks[t].pc = "done"
Alive == {t \in TaskIds : ~TaskDone(t)}
Running == pc \notin {"exited", "crashed"}

\* stop_event.is_set() on the global
StopIsSet == stop_event \in evset

\* if stop_event: stop_event.set()
SignalStop == IF stop_event # None THEN evset \cup {stop_event} ELSE evset

\* if streaming_task and not streaming_task.done():
\* faulty variant: the guard is never true, so nothing is cancelled or awaited
NeedsCancel_never == FALSE
NeedsCancel == streaming_task # None /\ ~TaskDone(streaming_task)

\* streaming_task.cancel(): CancelledError is thrown into the task when it next runs
CancelTask == [tasks EXCEPT ![streaming_task].cancel = TRUE]

\* The activation as a command finds it.
Snapshot ==
    [alive   |-> NeedsCancel,
     waiting |-> NeedsCancel /\ tasks[streaming_task].pc = "wait",
     task    |-> streaming_task,
     event   |-> stop_event,
     set     |-> StopIsSet]

Min(a, b) == IF a <= b THEN a ELSE b
LatCap == 2 * PollTimeoutMs + 2 * SettleMs

\* reader.readline() returns a line and process_command starts on it
Accept(l) ==
    /\ pc = "read"
    /\ nread < MaxLines
    /\ nread' = nread + 1
    /\ cur' = l
    /\ mark' = Len(out)
    /\ pre' = Snapshot
    /\ lat' = 0

CtlInit ==
    /\ pc = "read"
    /\ cur = NoLine
    /\ nread = 0
    /\ streaming_task = None
    /\ stop_event = None
    /\ evset = {}
    /\ tasks = <<>>
    /\ out = <<Ev("ready", "", "", 0)>>
    /\ lat = 0
    /\ nupd = 0
    /\ mark = 0
    /\ pre = [alive |-> FALSE, waiting |-> FALSE, task |-> None, event |-> None, set |-> FALSE]

\* No call of resolve_cell_color, process_screen_contents, get_profile_colors
HexIdle ==
    /\ c_color = [kind |-> "none", idx |-> 0, r |-> 0, g |-> 0, b |-> 0]
    /\ c_pal = <<>>
    /\ c_hex = ""
    /\ c_done = FALSE
RunIdle ==
    /\ r_contents = <<>>
    /\ r_lines = <<>>
    /\ r_done = FALSE
PalIdle ==
    /\ p_profile = <<>>
    /\ p_colors = <<>>
    /\ p_done = FALSE

\* The command loop's run: the pure functions are not under test
Init ==
    /\ CtlInit
    /\ HexIdle
    /\ RunIdle
    /\ PalIdle

\* ------------------------------------------------------- process_command
\* A line is refused: emit_error(msg); return False.  Nothing else is touched.
\* faulty variant: the line is refused only after the current streaming was stopped
RejectLine_afterRetire(msg) ==
    /\ out' = emit_error(out, msg, 0)
    /\ evset' = SignalStop
    /\ tasks' = IF NeedsCancel THEN CancelTask ELSE tasks
    /\ pc' = "read"
    /\ UNCHANGED <<streaming_task, stop_event, nupd>>
RejectLine(msg) ==
    /\ out' = emit_error(out, msg, 0)
    /\ pc' = "read"
    /\ UNCHANGED <<streaming_task, stop_event, evset, tasks, nupd>>

\* json.loads raises JSONDecodeError
ReadGarbage ==
    /\ Accept(Line("garbage", "", ""))
    /\ RejectLine("Invalid JSON")
    /\ UNCHANGED col_vars

\* json.loads returns a value without .get: cmd.get raises AttributeError, which
\* nothing catches; it leaves process_command, read_stdin and main.
ReadNonObject ==
    /\ Accept(Line("nonobject", "", ""))
    /\ pc' = "crashed"
    /\ UNCHANGED <<streaming_task, stop_event, evset, tasks, out, nupd>>
    /\ UNCHANGED col_vars

\* action is none of quit, stop, watch: falls through to return False
\* faulty variant: an unknown action is reported as an error
ReadUnknown_error ==
    /\ Accept(Line("object", "other", ""))
    /\ RejectLine("Unknown command")
    /\ UNCHANGED col_vars
ReadUnknown ==
    /\ Accept(Line("object", "other", ""))
    /\ pc' = "read"
    /\ UNCHANGED <<streaming_task, stop_event, evset, tasks, out, nupd>>
    /\ UNCHANGED col_vars

\* watch: if not session_id
ReadWatchNoId ==
    /\ Accept(Line("object", "watch", ""))
    /\ RejectLine("Missing sessionId")
    /\ UNCHANGED col_vars

\* stop_event.set(); streaming_task.cancel(); then `await streaming_task` when
\* the task is not done (pc' = awaiting), else straight on (pc' = direct).
\* faulty variant: the task is awaited without being signalled or cancelled
Retire_awaitOnly(awaiting, direct) ==
    /\ evset' = evset
    /\ IF NeedsCancel
       THEN /\ tasks' = tasks
            /\ pc' = awaiting
       ELSE /\ tasks' = tasks
            /\ pc' = direct
\* faulty variant: the previous task is left running
Retire_skipped(awaiting, direct) ==
    /\ evset' = evset
    /\ tasks' = tasks
    /\ pc' = direct
Retire(awaiting, direct) ==
    /\ evset' = SignalStop
    /\ IF NeedsCancel
       THEN /\ tasks' = CancelTask
            /\ pc' = awaiting
       ELSE /\ tasks' = tasks
            /\ pc' = direct

\* `await streaming_task` returns: the task is done (cancelled, failed or returned)
\* faulty variant: the command goes on without waiting for the task to end
AwaitDone_noWait == TRUE
AwaitDone == TaskDone(streaming_task)

\* emit({"type": "stopped"})
\* faulty variant: stopped is emitted inside the `if`, only when a task was awaited
FinishStop_onlyIfStreaming(o) == IF pc = "stop_await" THEN emit(o, Ev("stopped", "", "", 0)) ELSE o
FinishStop(o) == emit(o, Ev("stopped", "", "", 0))

\* quit emits nothing
\* faulty variant: quit emits stopped as stop does
FinishQuit_likeStop(o) == emit(o, Ev("stopped", "", "", 0))
FinishQuit(o) == o

\* read_stdin after the loop: stop_event.set(), streaming_task.cancel(), not
\* awaited; main returns and the event loop is closed.
Cleanup ==
    /\ evset' = SignalStop
    /\ tasks' = IF NeedsCancel THEN CancelTask ELSE tasks
    /\ pc' = "exited"

\* stop, up to `await streaming_task` or, with no task to await, to the end
ReadStop ==
    /\ Accept(Line("object", "stop", ""))
    /\ Retire("stop_await", "read")
    /\ out' = IF NeedsCancel THEN out ELSE FinishStop(out)
    /\ UNCHANGED <<streaming_task, stop_event, nupd>>
    /\ UNCHANGED col_vars

\* stop, after the await: streaming_task = None; emit stopped
StopAwaited ==
    /\ pc = "stop_await"
    /\ AwaitDone
    /\ streaming_task' = None
    /\ out' = FinishStop(out)
    /\ pc' = "read"
    /\ UNCHANGED <<cur, nread, stop_event, evset, tasks, lat, nupd, mark, pre>>
    /\ UNCHANGED col_vars

\* quit, up to `await streaming_task` or, with no task to await, through
\* return True and the cleanup of read_stdin
ReadQuit ==
    /\ Accept(Line("object", "quit", ""))
    /\ IF NeedsCancel
       THEN /\ Retire("quit_await", "quit_await")
            /\ out' = out
       ELSE /\ evset' = SignalStop
            /\ tasks' = tasks
            /\ pc' = "exited"
            /\ out' = FinishQuit(out)
    /\ UNCHANGED <<streaming_task, stop_event, nupd>>
    /\ UNCHANGED col_vars

\* quit, after the await: return True, then the cleanup of read_stdin
QuitAwaited ==
    /\ pc = "quit_await"
    /\ AwaitDone
    /\ out' = FinishQuit(out)
    /\ Cleanup
    /\ UNCHANGED <<cur, nread, streaming_task, stop_event, lat, nupd, mark, pre>>
    /\ UNCHANGED col_vars

\* readline returns b"": the input is closed
ReadEof ==
    /\ Accept(EofLine)
    /\ Cleanup
    /\ UNCHANGED <<streaming_task, stop_event, out, nupd>>
    /\ UNCHANGED col_vars

\* watch with a session id, up to `await streaming_task` or to the sleep
ReadWatch(s) ==
    /\ Accept(Line("object", "watch", s))
    /\ Retire("watch_await", "watch_sleep")
    /\ UNCHANGED <<streaming_task, stop_event, out, nupd>>
    /\ UNCHANGED col_vars

\* A coroutine that can run now: no timer expires before it has run.
HandlerReady ==
    \/ pc \in {"watch_lookup", "watch_profile", "watch_initial"}
    \/ pc \in {"stop_await", "quit_await", "watch_await"} /\ AwaitDone
TaskReady(t) ==
    \/ tasks[t].cancel
    \/ tasks[t].pc \in {"getapp", "enter"}
Quiet == ~HandlerReady /\ \A t \in Alive : ~TaskReady(t)

\* watch, after the await: asyncio.sleep(0.05) starts
WatchAwaited ==
    /\ pc = "watch_await"
    /\ AwaitDone
    /\ pc' = "watch_sleep"
    /\ UNCHANGED <<cur, nread, streaming_task, stop_event, evset, tasks, out, lat, nupd, mark, pre>>
    /\ UNCHANGED col_vars

\* the 0.05 s pass: `await iterm2.async_get_app(connection)` is sent
WatchSlept ==
    /\ pc = "watch_sleep"
    /\ Quiet
    /\ lat' = Min(lat + SettleMs, LatCap)
    /\ pc' = "watch_lookup"
    /\ UNCHANGED <<cur, nread, streaming_task, stop_event, evset, tasks, out, nupd, mark, pre>>
    /\ UNCHANGED col_vars

\* app.get_session_by_id(session_id)
\* faulty variant: the lookup result is not checked
SessionFound_any(s) == TRUE
SessionFound(s) == s \in Existing

\* async_get_app answers (r = "ok") or raises (nothing catches it); then the
\* session is looked up: not found is emit_error and return False
WatchLookup(r) ==
    /\ pc = "watch_lookup"
    /\ IF r = "raise"
       THEN /\ pc' = "crashed"
            /\ out' = out
       ELSE IF SessionFound(cur.sid)
       THEN /\ pc' = "watch_profile"
            /\ out' = out
       ELSE /\ pc' = "read"
            /\ out' = emit_error(out, "Session not found", 0)
    /\ UNCHANGED <<cur, nread, streaming_task, stop_event, evset, tasks, lat, nupd, mark, pre>>
    /\ UNCHANGED col_vars

\* session.async_get_profile() answers or raises (nothing catches it);
\* get_profile_colors; emit profile
WatchProfile(r) ==
    /\ pc = "watch_profile"
    /\ IF r = "raise"
       THEN /\ pc' = "crashed"
            /\ out' = out
       ELSE /\ pc' = "watch_initial"
            /\ out' = emit(out, Ev("profile", cur.sid, "", 0))
    /\ UNCHANGED <<cur, nread, streaming_task, stop_event, evset, tasks, lat, nupd, mark, pre>>
    /\ UNCHANGED col_vars

\* What the initial fetch puts on stdout: a snapshot, a falsy answer, or an
\* exception, which the try/except turns into an error event.
InitialOut(o, r) ==
    CASE r = "content" -> emit(o, Ev("content", cur.sid, "", 0))
      [] r = "empty" -> o
      [] r = "raise" -> emit_error(o, "Initial fetch failed", 0)

\* Whether process_command goes on to create_task after the initial fetch:
\* always, the except clause swallows the failure.
\* faulty variant: a failed initial fetch ends the command
StartsStreaming_unlessFailed(r) == r # "raise"
StartsStreaming(r) == TRUE

\* session.async_get_screen_contents() answers; the initial content or the
\* error is emitted; the poll task is created; return False
WatchInitial(r) ==
    /\ pc = "watch_initial"
    /\ out' = InitialOut(out, r)
    /\ IF StartsStreaming(r)
       THEN /\ tasks' = Append(tasks, Task(cur.sid, Len(out')))
            /\ streaming_task' = Len(tasks) + 1
       ELSE UNCHANGED <<tasks, streaming_task>>
    /\ pc' = "read"
    /\ UNCHANGED <<cur, nread, stop_event, evset, lat, nupd, mark, pre>>
    /\ UNCHANGED col_vars

\* -------------------------------------------------------- stream_session
\* A poll task runs when the process is up, it is not done, and no
\* CancelledError is waiting to be thrown into it.
CanRun(t) == Running /\ t \in TaskIds /\ ~TaskDone(t) /\ ~tasks[t].cancel

\* `while not stop_event.is_set()`: the task waits again (wait_for starts a
\* fresh 2.0 s) or leaves the loop and the streamer and returns
LoopCheck(t, T) ==
    IF StopIsSet
    THEN [T EXCEPT ![t].pc = "done", ![t].cancel = FALSE]
    ELSE [T EXCEPT ![t].pc = "wait", ![t].cancel = FALSE]

\* `if contents is None or stop_event.is_set(): break`
BreaksOnUpdate(r) == r = "none" \/ StopIsSet

\* One update of the loop body: break, or emit the content event and loop
OnContents(t, r) ==
    IF BreaksOnUpdate(r)
    THEN /\ tasks' = [tasks EXCEPT ![t].pc = "done", ![t].tmo = 0, ![t].cancel = FALSE]
         /\ UNCHANGED <<out, nupd>>
    ELSE /\ nupd < MaxUpdates
         /\ out' = emit(out, Ev("content", tasks[t].sid, "", t))
         /\ nupd' = nupd + 1
         /\ tasks' = LoopCheck(t, tasks)

\* stop_event = asyncio.Event(): a new Event, named after the task that makes
\* it; it is unset, no set() can have reached it
\* faulty variant: an Event that exists already is kept
FreshEvent_reuse(t) == IF stop_event # None THEN stop_event ELSE t
FreshEvent(t) == t

\* async_get_app answers: the session is looked up; found, the task installs
\* a fresh Event as the global stop_event and asks for the screen streamer.
\* gone: the session was closed since the watch.  raise: async_get_app fails,
\* outside the try, and the task ends with the exception.
TaskGetApp(t, r) ==
    /\ CanRun(t)
    /\ tasks[t].pc = "getapp"
    /\ CASE r = "ok" ->
              /\ stop_event' = FreshEvent(t)
              /\ tasks' = [tasks EXCEPT ![t].pc = "enter"]
              /\ out' = out
         [] r = "gone" ->
              /\ stop_event' = stop_event
              /\ tasks' = [tasks EXCEPT ![t].pc = "done", ![t].tmo = 0]
              /\ out' = emit_error(out, "Session not found", t)
         [] r = "raise" ->
              /\ stop_event' = stop_event
              /\ tasks' = [tasks EXCEPT ![t].pc = "done", ![t].tmo = 0]
              /\ out' = out
    /\ UNCHANGED <<pc, cur, nread, streaming_task, evset, lat, nupd, mark, pre>>
    /\ UNCHANGED col_vars

\* The streamer is entered (the subscription answers) and the loop condition
\* is checked for the first time; or entering fails and the except clauses
\* emit the error.
TaskEnter(t, r) ==
    /\ CanRun(t)
    /\ tasks[t].pc = "enter"
    /\ IF r = "ok"
       THEN /\ tasks' = LoopCheck(t, tasks)
            /\ out' = out
       ELSE /\ tasks' = [tasks EXCEPT ![t].pc = "done", ![t].tmo = 0]
            /\ out' = emit_error(out, r, t)
    /\ UNCHANGED <<pc, cur, nread, streaming_task, stop_event, evset, lat, nupd, mark, pre>>
    /\ UNCHANGED col_vars

\* streamer.async_get answers within the timeout: contents, or None
TaskUpdate(t, r) ==
    /\ CanRun(t)
    /\ tasks[t].pc = "wait"
    /\ OnContents(t, r)
    /\ UNCHANGED <<pc, cur, nread, streaming_task, stop_event, evset, lat, mark, pre>>
    /\ UNCHANGED col_vars

\* The 2.0 s pass without an update: asyncio.TimeoutError,
\* `if stop_event.is_set(): break` else `continue`
\* faulty variant: a timeout ends the loop whatever the stop signal says
TaskTimeout_exits(t) ==
    /\ CanRun(t)
    /\ tasks[t].pc = "wait"
    /\ Quiet
    /\ lat' = IF pc = "read" THEN lat ELSE Min(lat + PollTimeoutMs, LatCap)
    /\ tasks' = [tasks EXCEPT ![t].pc = "done", ![t].tmo = Min(@ + 1, MaxTimeouts)]
    /\ UNCHANGED <<pc, cur, nread, streaming_task, stop_event, evset, out, nupd, mark, pre>>
    /\ UNCHANGED col_vars
TaskTimeout(t) ==
    /\ CanRun(t)
    /\ tasks[t].pc = "wait"
    /\ Quiet
    /\ lat' = IF pc = "read" THEN lat ELSE Min(lat + PollTimeoutMs, LatCap)
    /\ tasks' = LoopCheck(t, [tasks EXCEPT ![t].tmo = Min(@ + 1, MaxTimeouts)])
    /\ UNCHANGED <<pc, cur, nread, streaming_task, stop_event, evset, out, nupd, mark, pre>>
    /\ UNCHANGED col_vars

\* streamer.async_get raises: RPCException ("Session disconnected") or another
\* exception ("Streaming error"); the error is emitted and the task returns
\* faulty variant: the error is emitted and the loop goes on
TaskSourceError_keepsPolling(t, msg) ==
    /\ CanRun(t)
    /\ tasks[t].pc = "wait"
    /\ tasks' = LoopCheck(t, tasks)
    /\ out' = emit_error(out, msg, t)
    /\ UNCHANGED <<pc, cur, nread, streaming_task, stop_event, evset, lat, nupd, mark, pre>>
    /\ UNCHANGED col_vars
TaskSourceError(t, msg) ==
    /\ CanRun(t)
    /\ tasks[t].pc = "wait"
    /\ tasks' = [tasks EXCEPT ![t].pc = "done", ![t].tmo = 0]
    /\ out' = emit_error(out, msg, t)
    /\ UNCHANGED <<pc, cur, nread, streaming_task, stop_event, evset, lat, nupd, mark, pre>>
    /\ UNCHANGED col_vars

\* The task runs after cancel().
\*   raise:    CancelledError leaves the coroutine (no except clause catches a
\*             BaseException); the task is cancelled.
\*   swallow:  the update had arrived when cancel() was called; wait_for (before
\*             Python 3.12) returns it and drops the cancellation.
\*   exitfail: leaving the streamer on the way out raises, and `except Exception`
\*             emits "Streaming error".
TaskCancelled(t, r) ==
    /\ Running
    /\ t \in TaskIds
    /\ ~TaskDone(t)
    /\ tasks[t].cancel
    /\ r \in {"swallow", "exitfail"} => tasks[t].pc = "wait"
    /\ CASE r = "raise" ->
              /\ tasks' = [tasks EXCEPT ![t].pc = "done", ![t].tmo = 0, ![t].cancel = FALSE]
              /\ UNCHANGED <<out, nupd>>
         [] r = "swallow" ->
              OnContents(t, "contents")
         [] r = "exitfail" ->
              /\ tasks' = [tasks EXCEPT ![t].pc = "done", ![t].tmo = 0, ![t].cancel = FALSE]
              /\ out' = emit_error(out, "Streaming error", t)
              /\ nupd' = nupd
    /\ UNCHANGED <<pc, cur, nread, streaming_task, stop_event, evset, lat, mark, pre>>
    /\ UNCHANGED col_vars

\* ---------------------------------------------------- resolve_cell_color
\* resolve_cell_color returns None
NoColor == "None"

HexDigits == <<"0", "1", "2", "3", "4", "5", "6", "7",
               "8", "9", "a", "b", "c", "d", "e", "f">>
RECURSIVE HexStr(_)
\* format(n, "x") for n >= 0
HexStr(n) ==
    IF n < 16 THEN HexDigits[n + 1]
    ELSE HexStr(n \div 16) \o HexDigits[(n % 16) + 1]
\* f"{n:02x}": at least two digits, zero-padded
Fmt02x(n) == IF n < 16 THEN "0" \o HexStr(n) ELSE HexStr(n)
\* f"#{r:02x}{g:02x}{b:02x}"
HexColor(r, g, b) == "#" \o Fmt02x(r) \o Fmt02x(g) \o Fmt02x(b)

\* The 6x6x6 colour cube: idx -= 16; r, g, b
\* faulty variant: green without the remainder by 36
CubeRGB_noMod(idx) ==
    LET v == idx - 16
    IN  <<(v \div 36) * 51, (v \div 6) * 51, (v % 6) * 51>>
CubeRGB(idx) ==
    LET v == idx - 16
    IN  <<(v \div 36) * 51, ((v % 36) \div 6) * 51, (v % 6) * 51>>
CubeColor(idx) == HexColor(CubeRGB(idx)[1], CubeRGB(idx)[2], CubeRGB(idx)[3])

\* The grayscale ramp: v = (idx - 232) * 10 + 8
\* faulty variant: the ramp without its offset of 8
GrayValue_noOffset(idx) == (idx - 232) * 10
GrayValue(idx) == (idx - 232) * 10 + 8

\* A CellStyle.Color: kind is "none" (the Python None), "rgb", "standard",
\* "alternate", or "other" (none of the three flags).
Color(kind, idx, r, g, b) == [kind |-> kind, idx |-> idx, r |-> r, g |-> g, b |-> b]

resolve_cell_color(color, ansi_palette) ==
    IF color.kind = "none" THEN NoColor
    ELSE IF color.kind = "rgb" THEN HexColor(color.r, color.g, color.b)
    ELSE IF color.kind = "standard" THEN
        LET idx == color.idx
        IN  IF 0 <= idx /\ idx < 16 /\ idx < Len(ansi_palette) THEN ansi_palette[idx + 1]
            ELSE IF 16 <= idx /\ idx < 232 THEN CubeColor(idx)
            ELSE IF 232 <= idx /\ idx < 256 THEN
                HexColor(GrayValue(idx), GrayValue(idx), GrayValue(idx))
            ELSE NoColor
    ELSE NoColor

\* A profile's palette as get_profile_colors returns it (16 entries), and
\* shorter lists, which resolve_cell_color guards against.
AnsiPalette == [i \in 1..16 |-> "#a0a0" \o Fmt02x(i - 1)]
Palettes == {AnsiPalette, SubSeq(AnsiPalette, 1, 8), <<>>}
Channels == {0, 8, 255}
Colors ==
    {Color("none", 0, 0, 0, 0), Color("alternate", 0, 0, 0, 0), Color("other", 0, 0, 0, 0)}
        \cup {Color("standard", i, 0, 0, 0) : i \in (0 - IdxSlack)..(255 + IdxSlack)}
        \cup {Color("rgb", 0, r, g, b) : r \in Channels, g \in Channels, b \in Channels}

\* One call of resolve_cell_color on the drawn input
ColorResolve ==
    /\ ~c_done
    /\ c_hex' = resolve_cell_color(c_color, c_pal)
    /\ c_done' = TRUE
    /\ UNCHANGED <<c_color, c_pal>>
    /\ UNCHANGED <<ctl_vars, run_vars, pal_vars>>

\* ------------------------------------------------- style runs of a screen
\* A CellStyle: some is FALSE for the Python None that style_at can return.
\* A colour of kind "raise" and a flag "raise" stand for an attribute whose
\* access raises; a flag is otherwise "true" or "false".
Style(fg, bg, b, i, u, s, inv, f) ==
    [some |-> TRUE, fg |-> fg, bg |-> bg,
     b |-> b, i |-> i, u |-> u, s |-> s, inv |-> inv, f |-> f]
DefaultColor == Color("alternate", 0, 0, 0, 0)
NoStyle ==
    [some |-> FALSE, fg |-> DefaultColor, bg |-> DefaultColor,
     b |-> "false", i |-> "false", u |-> "false", s |-> "false",
     inv |-> "false", f |-> "false"]

\* try: fg = resolve_cell_color(style.fg_color, ansi_palette) / except: pass
ResolveOrPass(color, ansi_palette) ==
    IF color.kind = "raise" THEN NoColor ELSE resolve_cell_color(color, ansi_palette)
\* if fg:
Truthy(hex) == hex # NoColor /\ hex # ""
\* try: if style.bold: / except: pass
\* faulty variant: the flag is written whenever it can be read
FlagSet_any(v) == v # "raise"
FlagSet(v) == v = "true"

FlagKeys == {"b", "i", "u", "s", "inv", "f"}
EmptyDict == [k \in {} |-> TRUE]
style_to_dict(style, ansi_palette) ==
    IF ~style.some THEN EmptyDict
    ELSE LET fg == ResolveOrPass(style.fg, ansi_palette)
             bg == ResolveOrPass(style.bg, ansi_palette)
             keys == (IF Truthy(fg) THEN {"fg"} ELSE {})
                         \cup (IF Truthy(bg) THEN {"bg"} ELSE {})
                         \cup {k \in FlagKeys : FlagSet(style[k])}
         IN  [k \in keys |-> IF k = "fg" THEN fg ELSE IF k = "bg" THEN bg ELSE TRUE]

\* run = {"t": current_text}; if current_style: run.update(current_style)
MakeRun(text, style_dict) ==
    [k \in {"t"} \cup DOMAIN style_dict |-> IF k = "t" THEN text ELSE style_dict[k]]
\* if current_text: ...; runs.append(run)
Flush(acc) ==
    IF acc.text # <<>> THEN Append(acc.runs, MakeRun(acc.text, acc.style)) ELSE acc.runs
\* if style_dict == current_style: has is FALSE while current_style is None
\* faulty variant: no cell ever continues the current run
SameStyle_never(acc, style_dict) == FALSE
SameStyle(acc, style_dict) == acc.has /\ style_dict = acc.style
\* The body of the loop over the cells of one line
ScanCell(acc, cell, ansi_palette) ==
    LET style_dict == IF cell.style.some THEN style_to_dict(cell.style, ansi_palette)
                      ELSE EmptyDict
    IN  IF SameStyle(acc, style_dict) THEN [acc EXCEPT !.text = Append(@, cell.ch)]
        ELSE [runs |-> Flush(acc), text |-> <<cell.ch>>, has |-> TRUE, style |-> style_dict]
RECURSIVE Scan(_, _, _, _)
Scan(line, x, acc, ansi_palette) ==
    IF x > Len(line) THEN acc
    ELSE Scan(line, x + 1, ScanCell(acc, line[x], ansi_palette), ansi_palette)
\* One line: runs = [], current_text = "", current_style = None, the loop,
\* and the flush of the last run
\* faulty variant: the run in progress at the end of the line is dropped
EncodeRow_noFinalFlush(line, ansi_palette) ==
    Scan(line, 1, [runs |-> <<>>, text |-> <<>>, has |-> FALSE, style |-> EmptyDict],
         ansi_palette).runs
EncodeRow(line, ansi_palette) ==
    Flush(Scan(line, 1, [runs |-> <<>>, text |-> <<>>, has |-> FALSE, style |-> EmptyDict],
               ansi_palette))
process_screen_contents(contents, ansi_palette) ==
    [i \in 1..Len(contents) |->
        IF contents[i] = <<>> THEN <<>> ELSE EncodeRow(contents[i], ansi_palette)]

\* Inputs: long rows over few cells, short rows over every style below
MaxRow == 6
ShortRow == 2
Cell(ch, style) == [ch |-> ch, style |-> style]
SPlain == Style(DefaultColor, DefaultColor, "false", "false", "false", "false", "false", "false")
SBold == Style(DefaultColor, DefaultColor, "true", "false", "false", "false", "false", "false")
SRed == Style(Color("standard", 1, 0, 0, 0), Color("none", 0, 0, 0, 0),
              "false", "false", "false", "false", "false", "false")
SRich == Style(Color("rgb", 0, 255, 8, 0), Color("standard", 200, 0, 0, 0),
               "true", "true", "true", "true", "true", "true")
SBroken == Style(Color("raise", 0, 0, 0, 0), Color("standard", 256, 0, 0, 0),
                 "raise", "false", "raise", "false", "true", "false")
SOther == Style(Color("other", 0, 0, 0, 0), Color("standard", 240, 0, 0, 0),
                "false", "raise", "false", "false", "false", "true")
LongCells == {Cell("a", NoStyle), Cell("a", SPlain), Cell("a", SBold), Cell("b", SBold)}
ShortCells ==
    {Cell(ch, st) : ch \in {"a", "b"}, st \in {NoStyle, SPlain, SBold, SRed, SRich, SBroken, SOther}}
Rows ==
    UNION {[1..n -> LongCells] : n \in 0..MaxRow}
        \cup UNION {[1..n -> ShortCells] : n \in 0..ShortRow}
Contents ==
    {<<>>} \cup {<<row>> : row \in Rows}
        \cup {<<<<c>>, <<>>, <<d>>>> : c \in LongCells, d \in LongCells}

\* One call of process_screen_contents on the drawn screen
RunEncode ==
    /\ ~r_done
    /\ r_lines' = process_screen_contents(r_contents, AnsiPalette)
    /\ r_done' = TRUE
    /\ UNCHANGED r_contents
    /\ UNCHANGED <<ctl_vars, hex_vars, pal_vars>>

\* --------------------------------------------------- a profile's colours
\* A profile maps each colour property to the hex string of its colour, or
\* to "raise" when reading the property or its .hex raises.
color_props ==
    <<"ansi_0_color", "ansi_1_color", "ansi_2_color", "ansi_3_color",
      "ansi_4_color", "ansi_5_color", "ansi_6_color", "ansi_7_color",
      "ansi_8_color", "ansi_9_color", "ansi_10_color", "ansi_11_color",
      "ansi_12_color", "ansi_13_color", "ansi_14_color", "ansi_15_color">>
BaseProps == {"foreground_color", "background_color", "cursor_color"}
ProfileProps == BaseProps \cup {color_props[n] : n \in DOMAIN color_props}

\* try: colors[key] = profile.<prop>.hex / except Exception: colors[key] = fallback
HexOr(profile, prop, fallback) ==
    IF profile[prop] = "raise" THEN fallback ELSE profile[prop]
\* except Exception: ansi.append("#c7c7c7")
\* faulty variant: a failing slot is skipped
OnAnsiFail_skip(ansi) == ansi
OnAnsiFail(ansi) == Append(ansi, "#c7c7c7")
RECURSIVE AnsiLoop(_, _, _)
\* for prop_name in color_props
AnsiLoop(profile, n, ansi) ==
    IF n > Len(color_props) THEN ansi
    ELSE AnsiLoop(profile, n + 1,
                  IF profile[color_props[n]] = "raise" THEN OnAnsiFail(ansi)
                  ELSE Append(ansi, profile[color_props[n]]))
get_profile_colors(profile) ==
    [fg     |-> HexOr(profile, "foreground_color", "#c7c7c7"),
     bg     |-> HexOr(profile, "background_color", "#000000"),
     cursor |-> HexOr(profile, "cursor_color", "#ffffff"),
     ansi   |-> AnsiLoop(profile, 1, <<>>)]

\* Inputs: profiles in which up to MaxFailing lookups fail, or all of them
MaxFailing == 2
GoodHex(prop) ==
    IF prop = "foreground_color" THEN "#010101"
    ELSE IF prop = "background_color" THEN "#020202"
    ELSE IF prop = "cursor_color" THEN "#030303"
    ELSE AnsiPalette[CHOOSE n \in DOMAIN color_props : color_props[n] = prop]
ProfileFailing(F) == [prop \in ProfileProps |-> IF prop \in F THEN "raise" ELSE GoodHex(prop)]
Profiles ==
    {ProfileFailing(F) : F \in {G \in SUBSET ProfileProps : Cardinality(G) <= MaxFailing}}
        \cup {ProfileFailing(ProfileProps)}

\* One call of get_profile_colors on the drawn profile
ProfileRead ==
    /\ ~p_done
    /\ p_colors' = get_profile_colors(p_profile)
    /\ p_done' = TRUE
    /\ UNCHANGED p_profile
    /\ UNCHANGED <<ctl_vars, hex_vars, run_vars>>

\* --------------------------------------------------------- specification
Next ==
    \/ ReadGarbage
    \/ ReadNonObject
    \/ ReadUnknown
    \/ ReadWatchNoId
    \/ ReadStop
    \/ StopAwaited
    \/ ReadQuit
    \/ QuitAwaited
    \/ ReadEof
    \/ \E s \in SessionIds : ReadWatch(s)
    \/ WatchAwaited
    \/ WatchSlept
    \/ \E r \in {"ok", "raise"} : WatchLookup(r)
    \/ \E r \in {"ok", "raise"} : WatchProfile(r)
    \/ \E r \in {"content", "empty", "raise"} : WatchInitial(r)
    \/ \E t \in TaskIds, r \in {"ok", "gone", "raise"} : TaskGetApp(t, r)
    \/ \E t \in TaskIds, r \in {"ok", "Session disconnected"} : TaskEnter(t, r)
    \/ \E t \in TaskIds, r \in {"contents", "none"} : TaskUpdate(t, r)
    \/ \E t \in TaskIds : TaskTimeout(t)
    \/ \E t \in TaskIds, m \in {"Session disconnected", "Streaming error"} : TaskSourceError(t, m)
    \/ \E t \in TaskIds, r \in {"raise", "swallow", "exitfail"} : TaskCancelled(t, r)

Spec == Init /\ [][Next]_vars

\* resolve_cell_color on every colour and palette of the bounded sets
InitColor ==
    /\ CtlInit
    /\ c_color \in Colors
    /\ c_pal \in Palettes
    /\ c_hex = ""
    /\ c_done = FALSE
    /\ RunIdle
    /\ PalIdle
NextColor == ColorResolve
SpecColor == InitColor /\ [][NextColor]_vars

\* process_screen_contents alone, on every drawn screen
InitRuns ==
    /\ CtlInit
    /\ HexIdle
    /\ r_contents \in Contents
    /\ r_lines = <<>>
    /\ r_done = FALSE
    /\ PalIdle
NextRuns == RunEncode
SpecRuns == InitRuns /\ [][NextRuns]_vars

\* get_profile_colors alone, on every drawn profile
InitPalette ==
    /\ CtlInit
    /\ HexIdle
    /\ RunIdle
    /\ p_profile \in Profiles
    /\ p_colors = <<>>
    /\ p_done = FALSE
NextPalette == ProfileRead
SpecPalette == InitPalette /\ [][NextPalette]_vars

\* ---------------------------------------------------------------- claims
\* What process_command itself has emitted for the current line
HandlerOut == SelectSeq(SubSeq(out, mark + 1, Len(out)), LAMBDA e : e.src = 0)
Stopped == Ev("stopped", "", "", 0)
Retiring == pc \in {"watch_await", "stop_await", "quit_await"}
Activating == pc \in {"watch_sleep", "watch_lookup", "watch_profile", "watch_initial"}

\* C1: at most one poll task is alive in every reachable state; while a
\* command awaits the previous task, that task is the only one alive, its
\* cancellation is pending and the stop signal is set; and from the end of
\* that await to the creation of the next task no poll task is alive.
C1_AtMostOnePollTask ==
    /\ Cardinality(Alive) <= 1
    /\ Retiring =>
          /\ Alive \subseteq {streaming_task}
          /\ \A t \in Alive : tasks[t].cancel
          /\ stop_event # None => StopIsSet
    /\ Activating => Alive = {}
\* a watch found a live poll task, retired it and has created the next one
C1_Witness ==
    /\ pc = "read"
    /\ cur.cmd = "watch"
    /\ pre.alive
    /\ streaming_task # pre.task
    /\ Alive = {streaming_task}

\* C2: a content event of a poll task is never emitted after a profile or a
\* stopped event that came after the task was created: no frame of a retired
\* activation follows the replacing profile or the stopped event.
C2_ActivationExclusivity ==
    \A j \in 1..Len(out) :
        (out[j].type = "content" /\ out[j].src # 0) =>
            \A i \in 1..(j - 1) :
                i > tasks[out[j].src].born => out[i].type \notin {"profile", "stopped"}
\* watch(A) then watch(B) before the task of A emitted a frame, and the task
\* of B has emitted one
C2_Witness ==
    /\ Len(tasks) >= 2
    /\ tasks[1].sid # tasks[2].sid
    /\ \E j \in 1..Len(out) : out[j].type = "content" /\ out[j].src = 2
    /\ \A j \in 1..Len(out) : out[j].src # 1

\* C3: when a stop command has returned, process_command has emitted exactly
\* one stopped event for it and no poll task is alive, whatever the state
\* the stop found; before it returns it has emitted nothing.
C3_StopIdempotent ==
    cur.cmd = "stop" =>
        /\ pc \in {"stop_await", "read"}
        /\ pc = "stop_await" => HandlerOut = <<>>
        /\ pc = "read" =>
              /\ HandlerOut = <<Stopped>>
              /\ Alive = {}
              /\ streaming_task # None => TaskDone(streaming_task)
\* two stops in a row: the second finds the controller Idle
C3_Witness ==
    /\ pc = "read"
    /\ cur.cmd = "stop"
    /\ Len(out) >= 2
    /\ out[Len(out)] = Stopped
    /\ out[Len(out) - 1] = Stopped

\* C4: a stop that found the poll task waiting for an update has spent at
\* most the poll timeout plus the settle delay in process_command, up to and
\* including its stopped event; while it awaits the task, the task is done or
\* has its cancellation pending, so it waits for no update and no timer.
C4_CancellationLatency ==
    (cur.cmd = "stop" /\ pre.waiting) =>
        /\ lat <= PollTimeoutMs + SettleMs
        /\ pc = "stop_await" => (TaskDone(pre.task) \/ tasks[pre.task].cancel)
        /\ pc = "read" => out[Len(out)] = Stopped
\* a stop found the task waiting and has emitted stopped
C4_Witness ==
    /\ cur.cmd = "stop"
    /\ pre.waiting
    /\ pc = "read"
    /\ out[Len(out)] = Stopped

\* C5: reading an unparsable line or a watch without session id appends
\* exactly one error event to stdout and changes neither the task handle, the
\* stop signal nor any poll task; the command loop is back at readline.
Malformed(l) == l.kind = "garbage" \/ (l.cmd = "watch" /\ l.sid = "")
C5_MalformedLeavesState ==
    [][(nread' = nread + 1 /\ Malformed(cur')) =>
          /\ Len(out') = Len(out) + 1
          /\ SubSeq(out', 1, Len(out)) = out
          /\ out'[Len(out')].type = "error"
          /\ out'[Len(out')].src = 0
          /\ UNCHANGED <<streaming_task, stop_event, evset, tasks>>
          /\ pc' = "read"]_vars
\* an unparsable line was read while a poll task was waiting for an update,
\* and the task is still waiting
C5_Witness ==
    /\ cur.kind = "garbage"
    /\ pre.waiting
    /\ out[Len(out)] = Ev("error", "", "Invalid JSON", 0)
    /\ tasks[pre.task].pc = "wait"
    /\ ~tasks[pre.task].cancel

NotFoundReturned == cur.cmd = "watch" /\ cur.sid \in Missing /\ pc = "read"

\* C6 as claimed: after a watch of an unknown session the activation that was
\* streaming is as the watch found it.
C6_Original ==
    (NotFoundReturned /\ pre.waiting) =>
        /\ streaming_task = pre.task
        /\ ~TaskDone(pre.task)
        /\ ~tasks[pre.task].cancel
        /\ stop_event = pre.event
        /\ StopIsSet = pre.set
\* C6, amended: a watch of an unknown session emits exactly one error event
\* (Session not found) and no profile or content event, and creates no poll
\* task; the activation it found is retired first: its stop signal is set and
\* its poll task is done, so no poll task is alive afterwards.
C6_NotFoundRetires ==
    NotFoundReturned =>
        /\ HandlerOut = <<Ev("error", "", "Session not found", 0)>>
        /\ streaming_task = pre.task
        /\ Alive = {}
        /\ pre.alive => TaskDone(pre.task)
        /\ stop_event # None => StopIsSet
\* a watch of an unknown session that found a session streaming
C6_Witness ==
    /\ NotFoundReturned
    /\ pre.waiting

\* C7 as claimed: no line and no collaborator failure ends the process;
\* it ends only on quit or on the closing of the input.
C7_NeverFatal == pc # "crashed"

\* C8: a watch of a known session emits the profile event first; when it
\* fetches the initial content no poll task is alive and none has been
\* created; when it returns it has emitted the profile and then either one
\* content event, or the error of the failed fetch, or nothing, all before
\* the task was created, and the task has been created in every case.
C8_WatchOrder ==
    (cur.cmd = "watch" /\ cur.sid \in Existing) =>
        /\ pc = "watch_initial" =>
              /\ HandlerOut = <<Ev("profile", cur.sid, "", 0)>>
              /\ streaming_task = pre.task
              /\ Alive = {}
        /\ pc = "read" =>
              /\ HandlerOut \in
                    { <<Ev("profile", cur.sid, "", 0)>>,
                      <<Ev("profile", cur.sid, "", 0), Ev("content", cur.sid, "", 0)>>,
                      <<Ev("profile", cur.sid, "", 0), Ev("error", "", "Initial fetch failed", 0)>> }
              /\ streaming_task = Len(tasks)
              /\ streaming_task # pre.task
              /\ tasks[streaming_task].sid = cur.sid
              /\ \A i \in 1..Len(out) : i > tasks[streaming_task].born => out[i].src # 0
\* the initial fetch failed and the poll task is in its loop
C8_Witness ==
    /\ cur.cmd = "watch"
    /\ pc = "read"
    /\ HandlerOut = <<Ev("profile", cur.sid, "", 0), Ev("error", "", "Initial fetch failed", 0)>>
    /\ tasks[streaming_task].pc = "wait"

\* C9: while quit awaits the poll task, the stop signal is set and the
\* task's cancellation is pending; when quit has been processed the process
\* has exited, no poll task is alive and quit has emitted nothing (no stopped
\* event); and once the process has exited nothing is read and nothing is
\* emitted any more.
C9_QuitTerminal ==
    /\ [](cur.cmd = "quit" =>
            /\ pc \in {"quit_await", "exited"}
            /\ pc = "quit_await" =>
                  /\ \A t \in Alive : tasks[t].cancel
                  /\ stop_event # None => StopIsSet
            /\ pc = "exited" =>
                  /\ Alive = {}
                  /\ HandlerOut = <<>>)
    /\ [][pc = "exited" => (pc' = "exited" /\ out' = out /\ nread' = nread /\ tasks' = tasks)]_vars
\* a quit that found a poll task alive has been processed
C9_Witness ==
    /\ cur.cmd = "quit"
    /\ pc = "exited"
    /\ pre.alive

StandardResolved(i) == c_done /\ c_color.kind = "standard" /\ c_color.idx = i

\* C10 as claimed: index 16 gives #000000, 21 #0000ff, 231 #ffffff,
\* 232 #080808 and 255 #ffffff.
C10_Original ==
    /\ StandardResolved(16) => c_hex = "#000000"
    /\ StandardResolved(21) => c_hex = "#0000ff"
    /\ StandardResolved(231) => c_hex = "#ffffff"
    /\ StandardResolved(232) => c_hex = "#080808"
    /\ StandardResolved(255) => c_hex = "#ffffff"
\* C10, amended: index 16 gives #000000, 21 #0000ff, 231 #ffffff,
\* 232 #080808 and 255 #eeeeee (the ramp ends at (255-232)*10+8 = 238).
C10_ColorCube ==
    /\ StandardResolved(16) => c_hex = "#000000"
    /\ StandardResolved(21) => c_hex = "#0000ff"
    /\ StandardResolved(231) => c_hex = "#ffffff"
    /\ StandardResolved(232) => c_hex = "#080808"
    /\ StandardResolved(255) => c_hex = "#eeeeee"
\* index 255 has been resolved
C10_Witness == StandardResolved(255) /\ c_hex = "#eeeeee"

\* The mapping of standard indices as the design states it
RefStandard(idx, pal) ==
    IF idx \in 0..15 THEN pal[idx + 1]
    ELSE IF idx \in 16..231 THEN
        LET v == idx - 16
        IN  HexColor(((v \div 36) % 6) * 51, ((v \div 6) % 6) * 51, (v % 6) * 51)
    ELSE IF idx \in 232..255 THEN
        LET g == (idx - 232) * 10 + 8
        IN  HexColor(g, g, g)
    ELSE NoColor

\* C11: with a 16-entry palette, resolve_cell_color of every standard index
\* is the reference mapping (palette entry, cube, ramp, or no override
\* outside 0..255), and every cube and ramp component lies in 0..255.
C11_StandardMapping ==
    (c_done /\ c_color.kind = "standard" /\ Len(c_pal) = 16) =>
        /\ c_hex = RefStandard(c_color.idx, c_pal)
        /\ c_color.idx \in 16..231 => \A k \in 1..3 : CubeRGB(c_color.idx)[k] \in 0..255
        /\ c_color.idx \in 232..255 => GrayValue(c_color.idx) \in 0..255
        /\ c_color.idx \notin 0..255 => c_hex = NoColor
\* index 100 of the cube has been resolved
C11_Witness ==
    /\ StandardResolved(100)
    /\ Len(c_pal) = 16
    /\ c_hex = "#666600"

\* ---- C12, C13, C14: the style runs of process_screen_contents
RunStyle(run) == [k \in DOMAIN run \ {"t"} |-> run[k]]
CellDict(cell) == style_to_dict(cell.style, AnsiPalette)
RowText(line) == [x \in 1..Len(line) |-> line[x].ch]
RECURSIVE Concat(_)
Concat(runs) == IF runs = <<>> THEN <<>> ELSE runs[1]["t"] \o Concat(Tail(runs))
RECURSIVE RunStart(_, _)
RunStart(runs, k) == IF k = 1 THEN 1 ELSE RunStart(runs, k - 1) + Len(runs[k - 1]["t"])
RunSpan(runs, k) == RunStart(runs, k)..(RunStart(runs, k) + Len(runs[k]["t"]) - 1)
RunLengths(runs) == [k \in 1..Len(runs) |-> Len(runs[k]["t"])]

\* C12: the runs of a row cover it left to right: one run list per row, the
\* run texts concatenate to the row's text, no run text is empty, every cell
\* under a run resolves to the run's style, and an empty row has no runs.
C12_RunsCoverRow ==
    r_done =>
        /\ Len(r_lines) = Len(r_contents)
        /\ \A i \in 1..Len(r_contents) :
            LET line == r_contents[i]
                runs == r_lines[i]
            IN  /\ Concat(runs) = RowText(line)
                /\ \A k \in 1..Len(runs) :
                    /\ runs[k]["t"] # <<>>
                    /\ \A x \in RunSpan(runs, k) : CellDict(line[x]) = RunStyle(runs[k])
                /\ line = <<>> => runs = <<>>
C12_Witness ==
    /\ r_done
    /\ r_contents = <<<<Cell("a", SRed), Cell("b", SRich)>>>>
    /\ Len(r_lines[1]) = 2
    /\ r_lines[1][1]["t"] = <<"a">>
    /\ r_lines[1][2]["t"] = <<"b">>

StyleChanges(line) == {x \in 2..Len(line) : CellDict(line[x]) # CellDict(line[x - 1])}
\* The row [A, A, B, B, B, A] of six cells in two distinct resolved styles
PatternAABBBA(line) ==
    /\ Len(line) = 6
    /\ CellDict(line[1]) = CellDict(line[2])
    /\ CellDict(line[3]) = CellDict(line[4])
    /\ CellDict(line[4]) = CellDict(line[5])
    /\ CellDict(line[6]) = CellDict(line[1])
    /\ CellDict(line[1]) # CellDict(line[3])

\* C13: the run encoding is minimal: adjacent runs differ in resolved style,
\* a non-empty row has one run more than it has style changes, a row in one
\* style is one run of the row's length, and [A, A, B, B, B, A] is three
\* runs of lengths 2, 3 and 1.
C13_RunsMinimal ==
    r_done =>
        \A i \in 1..Len(r_contents) :
            LET line == r_contents[i]
                runs == r_lines[i]
            IN  /\ \A k \in 1..(Len(runs) - 1) : RunStyle(runs[k]) # RunStyle(runs[k + 1])
                /\ line # <<>> => Len(runs) = 1 + Cardinality(StyleChanges(line))
                /\ (line # <<>> /\ StyleChanges(line) = {}) =>
                        RunLengths(runs) = <<Len(line)>>
                /\ PatternAABBBA(line) => RunLengths(runs) = <<2, 3, 1>>
C13_Witness ==
    /\ r_done
    /\ r_contents = <<<<Cell("a", NoStyle), Cell("a", SPlain), Cell("b", SBold),
                        Cell("a", SBold), Cell("b", SBold), Cell("a", SPlain)>>>>
    /\ RunLengths(r_lines[1]) = <<2, 3, 1>>

ColorApplies(color) ==
    \/ color.kind = "rgb"
    \/ color.kind = "standard" /\ color.idx \in 0..255
\* C14: a style key is present only when it applies: a run has fg (bg)
\* exactly when its cells' colour is an RGB or an indexed colour of 0..255,
\* so neither for Default nor for an unresolvable colour, and a flag key is
\* present exactly when the flag is set, always with the value true.
C14_KeysOnlyWhenApply ==
    r_done =>
        \A i \in 1..Len(r_contents) : \A k \in 1..Len(r_lines[i]) :
            LET run == r_lines[i][k]
            IN  \A x \in RunSpan(r_lines[i], k) :
                    LET st == r_contents[i][x].style
                    IN  /\ "fg" \in DOMAIN run <=> (st.some /\ ColorApplies(st.fg))
                        /\ "bg" \in DOMAIN run <=> (st.some /\ ColorApplies(st.bg))
                        /\ \A key \in FlagKeys :
                            /\ key \in DOMAIN run <=> (st.some /\ st[key] = "true")
                            /\ key \in DOMAIN run => run[key] = TRUE
                        /\ DOMAIN run \subseteq {"t", "fg", "bg"} \cup FlagKeys
C14_Witness ==
    /\ r_done
    /\ r_contents = <<<<Cell("a", SBroken), Cell("b", SOther)>>>>
    /\ Len(r_lines[1]) = 2
    /\ DOMAIN r_lines[1][1] = {"t", "inv"}
    /\ DOMAIN r_lines[1][2] = {"t", "bg", "f"}
    /\ r_lines[1][2]["bg"] = "#585858"

\* ---- C15
\* C15: a command whose action is none of watch, stop, quit is ignored
\* silently: the step that handles it emits no event, leaves the poll task,
\* its slot and the stop signal untouched, and returns to the command loop.
C15_UnknownIgnored ==
    [][(nread' = nread + 1 /\ cur'.kind = "object" /\ cur'.cmd = "other") =>
          /\ out' = out
          /\ UNCHANGED <<streaming_task, stop_event, evset, tasks>>
          /\ pc' = "read"]_vars
\* an unknown command was read while a poll task was waiting for an update,
\* and the task is still waiting, neither signalled nor cancelled
C15_Witness ==
    /\ cur.kind = "object" /\ cur.cmd = "other"
    /\ pre.waiting
    /\ streaming_task = pre.task
    /\ tasks[pre.task].pc = "wait"
    /\ ~tasks[pre.task].cancel
    /\ ~StopIsSet
    /\ mark = Len(out)

\* ---- C16
Expected(prop, fallback) == IF p_profile[prop] = "raise" THEN fallback ELSE p_profile[prop]
\* C16: get_profile_colors returns fg, bg, cursor and exactly 16 ANSI
\* entries in index order; every slot holds its own property's colour, or
\* its fallback (fg #c7c7c7, bg #000000, cursor #ffffff, ANSI #c7c7c7) when
\* that lookup fails, whatever the other lookups do.
C16_ProfileFallbacks ==
    p_done =>
        /\ DOMAIN p_colors = {"fg", "bg", "cursor", "ansi"}
        /\ p_colors.fg = Expected("foreground_color", "#c7c7c7")
        /\ p_colors.bg = Expected("background_color", "#000000")
        /\ p_colors.cursor = Expected("cursor_color", "#ffffff")
        /\ Len(p_colors.ansi) = 16
        /\ \A n \in 1..16 : p_colors.ansi[n] = Expected(color_props[n], "#c7c7c7")
\* the background and ANSI slot 3 failed; their neighbours kept their colours
C16_Witness ==
    /\ p_done
    /\ p_profile = ProfileFailing({"background_color", "ansi_3_color"})
    /\ p_colors.fg = "#010101"
    /\ p_colors.bg = "#000000"
    /\ p_colors.ansi[3] = "#a0a002"
    /\ p_colors.ansi[4] = "#c7c7c7"
    /\ p_colors.ansi[5] = "#a0a004"
    /\ Len(p_colors.ansi) = 16

\* ---- C17
\* The task in the slot when the current command was read had emitted an error
FailedBefore ==
    /\ pre.task # None
    /\ \E j \in 1..mark : out[j].type = "error" /\ out[j].src = pre.task
\* C17: an error event of a poll task is that task's last event and the
\* task has terminated; a command read after the failure never waits for
\* the failed task: a stop emits stopped alone, and a watch of an existing
\* session emits its profile first and ends with a new poll task for its
\* session in the slot.
C17_SourceFailureEndsTask ==
    /\ \A j \in 1..Len(out) :
          (out[j].type = "error" /\ out[j].src # 0) =>
              /\ TaskDone(out[j].src)
              /\ \A k \in (j + 1)..Len(out) : out[k].src # out[j].src
    /\ FailedBefore =>
          /\ ~pre.alive
          /\ ~Retiring
          /\ (cur.cmd = "stop" /\ pc = "read") => HandlerOut = <<Stopped>>
          /\ (cur.cmd = "watch" /\ cur.sid \in Existing /\ pc = "read") =>
                /\ HandlerOut[1] = Ev("profile", cur.sid, "", 0)
                /\ streaming_task = Len(tasks)
                /\ streaming_task # pre.task
                /\ tasks[streaming_task].sid = cur.sid
\* the update source of the first task failed; the next watch has activated
\* and its poll task is in its loop
C17_Witness ==
    /\ cur.cmd = "watch"
    /\ pc = "read"
    /\ FailedBefore
    /\ out[mark] = Ev("error", "", "Session disconnected", 1)
    /\ streaming_task = 2
    /\ tasks[2].pc = "wait"
    /\ tasks[2].sid = cur.sid

\* ---- C18
\* The step appends one content event of poll task t
EmitsContent(t) ==
    /\ Len(out') = Len(out) + 1
    /\ out'[Len(out')].type = "content"
    /\ out'[Len(out')].src = t
\* C18: a timeout of the bounded wait emits nothing and, the stop signal
\* not being set, leaves the task waiting (set, the task is done); a poll
\* task emits a content event only from its wait and only while the stop
\* signal is not set.
C18_TimeoutKeepsPolling ==
    [][\A t \in TaskIds :
          /\ tasks'[t].tmo > tasks[t].tmo =>
                /\ out' = out
                /\ tasks[t].pc = "wait"
                /\ tasks'[t].pc = IF StopIsSet THEN "done" ELSE "wait"
          /\ EmitsContent(t) =>
                /\ tasks[t].pc = "wait"
                /\ ~StopIsSet]_vars
\* a poll task has timed out repeatedly: it is still waiting and has emitted
\* nothing
C18_Witness ==
    \E t \in TaskIds :
        /\ tasks[t].tmo >= 2
        /\ tasks[t].pc = "wait"
        /\ ~tasks[t].cancel
        /\ ~StopIsSet
        /\ \A j \in 1..Len(out) : out[j].src # t

\* ---- C19
\* C19: a poll task that has got past the session lookup and has no
\* cancellation pending polls under its own stop signal, and that signal is
\* not set: a signal set by an earlier stop or watch is never the one a new
\* task checks.
C19_FreshSignal ==
    \A t \in TaskIds :
        (CanRun(t) /\ tasks[t].pc \in {"enter", "wait"}) =>
            /\ stop_event = t
            /\ t \notin evset
            /\ ~StopIsSet
\* the signal of the first task is still set, and the second task has
\* emitted content and waits for the next update
C19_Witness ==
    /\ Len(tasks) = 2
    /\ 1 \in evset
    /\ tasks[2].pc = "wait"
    /\ ~tasks[2].cancel
    /\ \E j \in 1..Len(out) : out[j].type = "content" /\ out[j].src = 2

\* ---- C20
\* Event k closes an activation for session s: a stopped event, the profile
\* of another session, or a watch's "Session not found"
ClosesActivation(k, s) ==
    \/ out[k].type = "stopped"
    \/ out[k].type = "profile" /\ out[k].sid # s
    \/ out[k] = Ev("error", "", "Session not found", 0)
\* C20: every content event for session s has a profile event for s before
\* it, with no stopped event, no profile of another session and no failed
\* (session not found) watch between the two; so there is no content before
\* the first successful watch, after a stop, or after a failed watch.
C20_ContentFollowsProfile ==
    \A j \in 1..Len(out) :
        out[j].type = "content" =>
            \E i \in 1..(j - 1) :
                /\ out[i].type = "profile"
                /\ out[i].sid = out[j].sid
                /\ \A k \in (i + 1)..(j - 1) : ~ClosesActivation(k, out[j].sid)
\* watch(A) then watch(B): the trace ends with the profile of B and content
\* of B's poll task, after the profile of A
C20_Witness ==
    /\ Len(out) >= 4
    /\ out[2] = Ev("profile", "A", "", 0)
    /\ out[Len(out) - 1] = Ev("profile", "B", "", 0)
    /\ out[Len(out)] = Ev("content", "B", "", 2)

====
